---- MODULE Spec2Model ----
(***************************************************************************)
(* GRPO transfer module (modules/grpo_transfer/routes.py) and the ERP       *)
(* lookups of modules/transfer_grpo/routes.py: the persisted records       *)
(* (sessions, items, splits, labels, activity log), the ERP's accepted     *)
(* stock transfers, and one action per request handler.  A handler runs to *)
(* completion within one request (spec section 5), so each handler is one  *)
(* atomic action; the outcome of each db.session.commit() and of each ERP  *)
(* call is an input of the action.  The race of two requests on one        *)
(* session is modelled apart, with a handler's read and commit as separate *)
(* steps.                                                                  *)
(*                                                                         *)
(* Quantities are Python floats in the code.  Here a quantity is an        *)
(* integer number of 1/Scale units (Scale = 2: 5 stands for 2.5).          *)
(* A record's primary key is its position in its table (autoincrement).    *)
(***************************************************************************)
EXTENDS Integers, Sequences, FiniteSets, TLC

VARIABLES
    sessions,   \* table GRPOTransferSession, row id = index
    items,      \* table GRPOTransferItem, row id = index
    splits,     \* table GRPOTransferSplit
    batches,    \* table GRPOTransferBatch (read through item.batches)
    labels,     \* table GRPOTransferQRLabel
    logs,       \* table GRPOTransferLog
    erp,        \* stock transfers the ERP has accepted, oldest first
    posted,     \* the document the last request sent to the ERP, or NoDoc
    request,    \* the last request: handler, session id, acting user, body
    response,   \* the last request's response: HTTP status and JSON body
    env,        \* what the ERP and the database did to the last request
    ops,        \* the number of requests handled so far
    txn         \* the requests in flight: what each worker read, and the commits

vars == <<sessions, items, splits, batches, labels, logs, erp, posted, request, response, env, ops, txn>>

----------------------------------------------------------------------------
(* Bounds of the model *)

MaxOps == 3      \* requests handled in one behaviour
MaxLines == 2    \* lines of an imported document
MaxBatch == 3    \* entries of one QC request an action draws
Scale == 2       \* quantity units per whole unit
MaxCalls == 2    \* requests one worker handles when requests overlap

Users == {1, 2}
NoUser == 0
None == "None"
NoKey == -1
\* ids a request can name: every existing row and one that does not exist
Refs(table) == 1..(Len(table) + 1)

NoDoc == [sent |-> FALSE]

\* the ERP was not called, or gave no reply
NoReply == 0

\* status: the status of the ERP's reply, or NoReply; failed: which of the
\* handler's commits raised (1, 2), 0 when none did
Env(status, failed) == [status |-> status, failed |-> failed]

\* the commit that raised, of a handler that reached its commits
Failed(c1, c2) == IF ~c1 THEN 1 ELSE IF ~c2 THEN 2 ELSE 0

----------------------------------------------------------------------------
(* Sequence helpers *)

RECURSIVE SelectIdx(_, _)
\* the indices i >= from of flags, ascending, at which flags[i] holds
SelectIdx(flags, from) ==
    IF from > Len(flags) THEN <<>>
    ELSE (IF flags[from] THEN <<from>> ELSE <<>>) \o SelectIdx(flags, from + 1)

RECURSIVE SeqsUpTo(_, _)
\* all sequences over S of length at most n
SeqsUpTo(S, n) ==
    IF n = 0 THEN {<<>>}
    ELSE LET shorter == SeqsUpTo(S, n - 1)
         IN  shorter \cup {Append(q, x) : q \in {r \in shorter : Len(r) = n - 1}, x \in S}

----------------------------------------------------------------------------
(* Model defaults of the tables *)

NewSession ==
    [status |-> "draft", qc_approved_by |-> NoUser,
     transfer_doc_entry |-> 0, transfer_doc_num |-> 0]

NewItem(sid, wh, recv) ==
    [session_id |-> sid, from_warehouse |-> wh, to_warehouse |-> None,
     received_quantity |-> recv, approved_quantity |-> 0, rejected_quantity |-> 0,
     qc_status |-> "pending",
     is_batch_item |-> FALSE, is_serial_item |-> FALSE, is_non_managed |-> FALSE]

\* session.items: the ids of the session's items, in id order
SessionItems(its, sid) ==
    SelectIdx([i \in 1..Len(its) |-> its[i].session_id = sid], 1)

\* item.batches: the ids of the item's GRPOTransferBatch rows
ItemBatches(bts, iid) ==
    SelectIdx([i \in 1..Len(bts) |-> bts[i].item_id = iid], 1)

LogEntry(sid, u, action) == [session_id |-> sid, user_id |-> u, action |-> action]

\* the workers that handle overlapping requests
Workers == {1, 2}

\* no request in flight, no commit yet
NoTxn ==
    [at |-> [w \in Workers |-> "idle"],
     op |-> [w \in Workers |-> "none"],
     sid |-> [w \in Workers |-> 0],
     user |-> [w \in Workers |-> NoUser],
     batch |-> [w \in Workers |-> <<>>],
     seenSessions |-> [w \in Workers |-> <<>>],
     seenItems |-> [w \in Workers |-> <<>>],
     new |-> [w \in Workers |-> <<>>],
     calls |-> [w \in Workers |-> 0],
     order |-> <<>>]

\* one more request handled, from its first read to its last commit with no
\* other request in flight
Tick == ops < MaxOps /\ ops' = ops + 1 /\ txn' = txn

Req(op, sid, u) == [op |-> op, sid |-> sid, user |-> u]

\* a request with a JSON body the handler reads
ReqWith(op, sid, u, body) == [op |-> op, sid |-> sid, user |-> u, body |-> body]

\* a response: HTTP status, the members the JSON body has, the 'success'
\* flag, the kind of 'error', and the number the payload reports (session_id,
\* item_id, labels_generated, sap_doc_entry, rows) and the management-type
\* flags it reports true; a field whose member is absent holds a filler.
Body(code, members, ok, err, n) ==
    [code |-> code, members |-> members, success |-> ok, error |-> err, n |-> n,
     flags |-> {}]

\* the envelope of modules/grpo_transfer/routes.py: 'success' with a payload,
\* or 'success' with an 'error'
Resp(code, ok, err, n) ==
    Body(code, IF ok THEN {"success", "payload"} ELSE {"success", "error"}, ok, err, n)

\* SessionFound without the lookup's test
SessionFoundAlways(ss, sid) == TRUE

\* session = GRPOTransferSession.query.get(session_id); if not session: 404
SessionFound(ss, sid) == sid <= Len(ss)

----------------------------------------------------------------------------
Init ==
    /\ sessions = <<>>
    /\ items = <<>>
    /\ splits = <<>>
    /\ batches = <<>>
    /\ labels = <<>>
    /\ logs = <<>>
    /\ erp = <<>>
    /\ posted = NoDoc
    /\ request = Req("none", 0, NoUser)
    /\ response = Resp(0, TRUE, "", 0)
    /\ env = Env(NoReply, 0)
    /\ ops = 0
    /\ txn = NoTxn

----------------------------------------------------------------------------
(* create_session_view: import a goods-receipt document into a new session *)

\* the items of session sid made from a document's lines (routes.py 137-152)
Imported(sid, lines) == [i \in 1..Len(lines) |-> NewItem(sid, lines[i].wh, lines[i].qty)]

\* erpOut: "auth" (login refused), "status" (non-200), "empty" (200, no rows),
\* "ok" (200, one row per line in lines).  c1, c2: outcome of the two commits.
CreateSessionView(u, erpOut, lines, c1, c2) ==
    LET sid == Len(sessions) + 1
        newItems == Imported(sid, lines)
    IN
    /\ Tick
    /\ request' = Req("create_session_view", 0, u)
    /\ posted' = NoDoc
    /\ env' = Env(CASE erpOut = "auth" -> NoReply [] erpOut = "status" -> 400 [] OTHER -> 200,
                  IF erpOut = "ok" THEN Failed(c1, c2) ELSE 0)
    /\ UNCHANGED <<splits, batches, labels, erp>>
    /\ IF erpOut # "ok" \/ ~c1
       THEN /\ response' = Resp(302, FALSE, "flash", 0)
            /\ UNCHANGED <<sessions, items, logs>>
       ELSE /\ sessions' = Append(sessions, NewSession)
            /\ items' = items \o newItems
            /\ IF c2
               THEN /\ logs' = Append(logs, LogEntry(sid, u, "session_created"))
                    /\ response' = Resp(302, TRUE, "", sid)
               ELSE /\ logs' = logs
                    /\ response' = Resp(302, FALSE, "flash", 0)

----------------------------------------------------------------------------
(* create_session: create an empty session from a JSON request *)

\* req: "missing" (a required field is absent), "baddate" (doc_date does not
\* parse), "ok".
CreateSession(u, req, c1, c2) ==
    LET sid == Len(sessions) + 1 IN
    /\ Tick
    /\ request' = Req("create_session", 0, u)
    /\ posted' = NoDoc
    /\ env' = Env(NoReply, IF req = "ok" THEN Failed(c1, c2) ELSE 0)
    /\ UNCHANGED <<items, splits, batches, labels, erp>>
    /\ IF req = "missing"
       THEN /\ response' = Resp(400, FALSE, "missing_fields", 0)
            /\ UNCHANGED <<sessions, logs>>
       ELSE IF req = "baddate" \/ ~c1
       THEN /\ response' = Resp(500, FALSE, "exception", 0)
            /\ UNCHANGED <<sessions, logs>>
       ELSE /\ sessions' = Append(sessions, NewSession)
            /\ IF c2
               THEN /\ logs' = Append(logs, LogEntry(sid, u, "session_created"))
                    /\ response' = Resp(200, TRUE, "", sid)
               ELSE /\ logs' = logs
                    /\ response' = Resp(500, FALSE, "exception", 0)

----------------------------------------------------------------------------
(* add_item_to_session *)

\* data: [wf, from_warehouse, received_quantity, is_batch_item,
\* is_serial_item, is_non_managed]; wf = FALSE stands for a body whose numeric
\* fields do not parse (float() raises).
AddItemToSession(sid, data, c1) ==
    /\ Tick
    /\ request' = Req("add_item", sid, NoUser)
    /\ posted' = NoDoc
    /\ env' = Env(NoReply, IF SessionFound(sessions, sid) /\ data.wf /\ ~c1 THEN 1 ELSE 0)
    /\ UNCHANGED <<sessions, splits, batches, labels, logs, erp>>
    /\ IF ~SessionFound(sessions, sid)
       THEN /\ response' = Resp(404, FALSE, "session_not_found", 0)
            /\ items' = items
       ELSE IF ~data.wf \/ ~c1
       THEN /\ response' = Resp(500, FALSE, "exception", 0)
            /\ items' = items
       ELSE /\ items' = Append(items,
                   [NewItem(sid, data.from_warehouse, data.received_quantity)
                       EXCEPT !.is_batch_item = data.is_batch_item,
                              !.is_serial_item = data.is_serial_item,
                              !.is_non_managed = data.is_non_managed])
            /\ response' = Resp(200, TRUE, "", Len(items) + 1)

----------------------------------------------------------------------------
(* qc_approve_items *)

\* Skipped raising an error
SkippedAsError(st) == [st EXCEPT !.err = TRUE]

\* if not item: continue
Skipped(st) == st

\* One entry of data['items'] applied to the pending item and split rows
\* (routes.py 785-812).  st = [items, splits, err].
ApplyApproval(st, e) ==
    IF st.err THEN st
    ELSE IF e.item_id = NoKey THEN [st EXCEPT !.err = TRUE]
    ELSE IF e.item_id > Len(st.items) THEN Skipped(st)
    ELSE [st EXCEPT
            !.items[e.item_id].approved_quantity = e.approved_quantity,
            !.items[e.item_id].rejected_quantity = e.rejected_quantity,
            !.items[e.item_id].qc_status = e.qc_status,
            !.items[e.item_id].to_warehouse = e.to_warehouse,
            !.splits = st.splits \o
                [k \in 1..Len(e.splits) |->
                    [item_id |-> e.item_id,
                     split_number |-> e.splits[k].split_number,
                     quantity |-> e.splits[k].quantity,
                     batch_number |-> e.splits[k].batch_number]]]

RECURSIVE ApplyBatch(_, _, _)
\* the loop over data['items'], from entry i on
ApplyBatch(st, batch, i) ==
    IF i > Len(batch) THEN st
    ELSE ApplyBatch(ApplyApproval(st, batch[i]), batch, i + 1)

\* ReviewedStatus closing the session
ReviewedStatusCompleted == "completed"

\* the status qc_approve_items writes (routes.py 814)
ReviewedStatus == "in_progress"

\* Reviewed without the approver
ReviewedNoActor(s, u) == [s EXCEPT !.status = "in_progress"]

\* the session after routes.py 814-815
Reviewed(s, u) == [s EXCEPT !.status = ReviewedStatus, !.qc_approved_by = u]

\* batch: data['items']; c1: the commit of the items, splits and session;
\* c2: the commit of the activity-log entry.
QcApproveItems(sid, u, batch, c1, c2) ==
    LET done == ApplyBatch([items |-> items, splits |-> splits, err |-> FALSE], batch, 1)
    IN
    /\ Tick
    /\ request' = ReqWith("qc_approve", sid, u, batch)
    /\ posted' = NoDoc
    /\ env' = Env(NoReply, IF SessionFound(sessions, sid) /\ ~done.err THEN Failed(c1, c2) ELSE 0)
    /\ UNCHANGED <<batches, labels, erp>>
    /\ IF ~SessionFound(sessions, sid)
       THEN /\ response' = Resp(404, FALSE, "session_not_found", 0)
            /\ UNCHANGED <<sessions, items, splits, logs>>
       ELSE IF done.err \/ ~c1
       THEN /\ response' = Resp(500, FALSE, "exception", 0)
            /\ UNCHANGED <<sessions, items, splits, logs>>
       ELSE /\ items' = done.items
            /\ splits' = done.splits
            /\ sessions' = [sessions EXCEPT ![sid] = Reviewed(@, u)]
            /\ IF c2
               THEN /\ logs' = Append(logs, LogEntry(sid, u, "qc_approved"))
                    /\ response' = Resp(200, TRUE, "", 0)
               ELSE /\ logs' = logs
                    /\ response' = Resp(500, FALSE, "exception", 0)

----------------------------------------------------------------------------
(* generate_qr_labels *)

\* IntOf rounding to the nearest unit instead of truncating
IntOfRounded(q) == (2 * q + Scale) \div (2 * Scale)

\* int(x) of a quantity: truncation toward zero
IntOf(q) == IF q >= 0 THEN q \div Scale ELSE -((-q) \div Scale)

\* Eligible without the quantity test
EligibleAnyQuantity(it) == it.qc_status = "approved"

\* the filter of routes.py 900
Eligible(it) == it.qc_status = "approved" /\ it.approved_quantity > 0

\* approved_items: the ids of the session's eligible items, in item order
ApprovedItems(its, sid) ==
    LET ids == SessionItems(its, sid)
        pos == SelectIdx([k \in 1..Len(ids) |-> Eligible(its[ids[k]])], 1)
    IN  [k \in 1..Len(pos) |-> ids[pos[k]]]

\* the labels of one item: the loop of routes.py 913-944
ItemLabels(sid, iid) ==
    LET approved_qty == IntOf(items[iid].approved_quantity)
        bts == ItemBatches(batches, iid)
    IN  IF approved_qty <= 0 THEN <<>>
        ELSE [label_num \in 1..approved_qty |->
                [session_id |-> sid, item_id |-> iid,
                 label_number |-> label_num, total_labels |-> approved_qty,
                 batch_number |-> IF bts # <<>> THEN batches[bts[1]].batch_number ELSE None,
                 quantity |-> 1]]

\* NothingMinted never holding
NothingMintedNever(label_count) == FALSE

\* if label_count == 0, routes.py 946
NothingMinted(label_count) == label_count = 0

\* Minted adding nothing to a table that holds labels
MintedOnce(old, new) == IF old # <<>> THEN old ELSE old \o new

\* the label table after db.session.add(label) of every new label and the
\* commit
Minted(old, new) == old \o new

RECURSIVE NewLabels(_, _, _)
\* the labels added for approved_items[k..]
NewLabels(sid, ids, k) ==
    IF k > Len(ids) THEN <<>>
    ELSE ItemLabels(sid, ids[k]) \o NewLabels(sid, ids, k + 1)

GenerateQrLabels(sid, c1) ==
    LET approved_items == ApprovedItems(items, sid)
        new == NewLabels(sid, approved_items, 1)
        label_count == Len(new)
    IN
    /\ Tick
    /\ request' = Req("generate_qr_labels", sid, NoUser)
    /\ posted' = NoDoc
    /\ env' = Env(NoReply, IF /\ SessionFound(sessions, sid) /\ approved_items # <<>>
                              /\ ~NothingMinted(label_count) /\ ~c1
                           THEN 1 ELSE 0)
    /\ UNCHANGED <<sessions, items, splits, batches, logs, erp>>
    /\ IF ~SessionFound(sessions, sid)
       THEN /\ response' = Resp(404, FALSE, "session_not_found", 0)
            /\ labels' = labels
       ELSE IF approved_items = <<>>
       THEN /\ response' = Resp(400, FALSE, "no_approved_items", 0)
            /\ labels' = labels
       ELSE IF NothingMinted(label_count)
       THEN /\ response' = Resp(400, FALSE, "no_labels", 0)
            /\ labels' = labels
       ELSE IF ~c1
       THEN /\ response' = Resp(500, FALSE, "exception", 0)
            /\ labels' = labels
       ELSE /\ labels' = Minted(labels, new)
            /\ response' = Resp(200, TRUE, "", label_count)

----------------------------------------------------------------------------
(* post_transfer_to_sap *)

\* 'LineNum': idx of enumerate(session.items), routes.py 998-1003
LineNumOf(idx, filteredPos) == idx

\* one line of the document (routes.py 1002-1021); ItemCode is the item's id
TransferLine(idx, filteredPos, iid) ==
    LET it == items[iid]
        bts == ItemBatches(batches, iid)
    IN  [LineNum |-> LineNumOf(idx, filteredPos),
         ItemCode |-> iid,
         Quantity |-> it.approved_quantity,
         WarehouseCode |-> it.to_warehouse,
         FromWarehouseCode |-> it.from_warehouse,
         BatchNumbers |->
            IF it.is_batch_item /\ bts # <<>>
            THEN [k \in 1..Len(bts) |->
                    [BatchNumber |-> batches[bts[k]].batch_number,
                     Quantity |-> batches[bts[k]].approved_quantity]]
            ELSE <<>>]

\* IsPosted taking every item
IsPostedAny(it) == TRUE

\* the test of routes.py 999
IsPosted(it) == it.qc_status = "approved"

StockTransferLines(sid) ==
    LET ids == SessionItems(items, sid)
        pos == SelectIdx([k \in 1..Len(ids) |-> IsPosted(items[ids[k]])], 1)
    IN  [k \in 1..Len(pos) |-> TransferLine(pos[k] - 1, k - 1, ids[pos[k]])]

\* HeaderItem taking the last item
HeaderItemLast(ids) == ids[Len(ids)]

\* the header's warehouse pair, routes.py 992-993
HeaderItem(ids) == ids[1]

StockTransfer(sid) ==
    LET ids == SessionItems(items, sid) IN
    [sent |-> TRUE,
     session |-> sid,
     FromWarehouse |-> IF ids # <<>> THEN items[HeaderItem(ids)].from_warehouse ELSE "",
     ToWarehouse |-> IF ids # <<>> THEN items[HeaderItem(ids)].to_warehouse ELSE "",
     StockTransferLines |-> StockTransferLines(sid)]

\* Accepted taking every reply for a success
AcceptedAnyReply(code) == TRUE

\* response.status_code in [200, 201]
Accepted(code) == code \in {200, 201}

\* the ERP's reply to an accepted document: its new entry and number
ErpReply(n) == [DocEntry |-> n, DocNum |-> n + 100]

\* Transferred keeping a transferred session as it is
TransferredOnce(s, data) ==
    IF s.status = "transferred" THEN s
    ELSE [s EXCEPT !.transfer_doc_entry = data.DocEntry,
                   !.transfer_doc_num = data.DocNum,
                   !.status = "transferred"]

\* the session after routes.py 1052-1054
Transferred(s, data) ==
    [s EXCEPT !.transfer_doc_entry = data.DocEntry,
              !.transfer_doc_num = data.DocNum,
              !.status = "transferred"]

\* net: "ok" (a reply arrives), "refused" (the request raises before the ERP
\* takes it), "lost" (the ERP takes the document, the reply never arrives);
\* code: the reply's status, 200 or 201 exactly when the ERP took the document; c1: the commit of the session; c2: the commit of
\* the activity-log entry.
PostTransferToSap(sid, u, net, code, c1, c2) ==
    LET data == ErpReply(Len(erp) + 1)
        found == SessionFound(sessions, sid)
        taken == found /\ (net = "lost" \/ (net = "ok" /\ code \in {200, 201}))
        stored == found /\ net = "ok" /\ Accepted(code) /\ c1
    IN
    /\ Tick
    /\ request' = Req("post_transfer", sid, u)
    /\ env' = Env(IF found /\ net = "ok" THEN code ELSE NoReply,
                  IF found /\ net = "ok" /\ Accepted(code) THEN Failed(c1, c2) ELSE 0)
    /\ UNCHANGED <<items, splits, batches, labels>>
    /\ posted' = IF found THEN StockTransfer(sid) ELSE NoDoc
    /\ erp' = IF taken THEN Append(erp, sid) ELSE erp
    /\ sessions' = IF stored THEN [sessions EXCEPT ![sid] = Transferred(@, data)]
                   ELSE sessions
    /\ logs' = IF stored /\ c2 THEN Append(logs, LogEntry(sid, u, "transferred"))
               ELSE logs
    /\ response' =
         IF ~found THEN Resp(404, FALSE, "session_not_found", 0)
         ELSE IF net # "ok" THEN Resp(500, FALSE, "exception", 0)
         ELSE IF ~Accepted(code) THEN Resp(500, FALSE, "sap_error", 0)
         ELSE IF ~(c1 /\ c2) THEN Resp(500, FALSE, "exception", 0)
         ELSE Resp(200, TRUE, "", data.DocEntry)

----------------------------------------------------------------------------
(* The read-only handlers of modules/grpo_transfer/routes.py *)

\* a handler that writes no table: its request and what the ERP replied
Answered(op, status) ==
    /\ Tick
    /\ request' = Req(op, 0, NoUser)
    /\ posted' = NoDoc
    /\ env' = Env(status, 0)
    /\ UNCHANGED <<sessions, items, splits, batches, labels, logs, erp>>

\* the status the handler sees: none when the login is refused or the call
\* raises
Replied(login, net, code) == IF login /\ net = "ok" THEN code ELSE NoReply

\* the sessions get_sessions lists (routes.py 191-193)
Active(ss) ==
    SelectIdx([i \in 1..Len(ss) |-> ss[i].status \in {"draft", "in_progress", "completed"}], 1)

\* dbOk: the query succeeds
GetSessions(dbOk) ==
    /\ Answered("get_sessions", NoReply)
    /\ response' = IF dbOk THEN Resp(200, TRUE, "", Len(Active(sessions)))
                   ELSE Resp(500, FALSE, "exception", 0)

\* the response of a handler that lists the rows of an ERP query: login
\* (ensure_logged_in), net ("ok", or "refused": the call raises), code (the
\* reply's status), rows (the number of rows in the reply)
Listed(login, net, code, rows) ==
    IF ~login THEN Resp(500, FALSE, "auth", 0)
    ELSE IF net # "ok" THEN Resp(500, FALSE, "exception", 0)
    ELSE IF code = 200 THEN Resp(200, TRUE, "", rows)
    ELSE Resp(500, FALSE, "sap_error", 0)

GetSeriesList(login, net, code, rows) ==
    /\ Answered("get_series_list", Replied(login, net, code))
    /\ response' = Listed(login, net, code, rows)

GetDocNumbers(login, net, code, rows) ==
    /\ Answered("get_doc_numbers", Replied(login, net, code))
    /\ response' = Listed(login, net, code, rows)

GetGrpoDetails(login, net, code, rows) ==
    /\ Answered("get_grpo_details", Replied(login, net, code))
    /\ response' = Listed(login, net, code, rows)

\* the classification validate_item returns (routes.py 523-537): flags holds
\* the flags of the payload that are true; batchNum and serialNum: the row's
\* BatchNum and SerialNum are 'Y'
Classified(batchNum, serialNum) ==
    LET is_batch == batchNum
        is_serial == serialNum
        is_non_managed == ~is_batch /\ ~is_serial
    IN  [Resp(200, TRUE, "", 1) EXCEPT !.flags =
            {f \in {"is_batch_item"} : is_batch} \cup {f \in {"is_serial_item"} : is_serial}
            \cup {f \in {"is_non_managed"} : is_non_managed}]

ValidateItem(login, net, code, rows, batchNum, serialNum) ==
    /\ Answered("validate_item", Replied(login, net, code))
    /\ response' = IF login /\ net = "ok" /\ code = 200
                   THEN IF rows > 0 THEN Classified(batchNum, serialNum)
                        ELSE Resp(404, FALSE, "item_not_found", 0)
                   ELSE Listed(login, net, code, rows)

GetBatchNumbers(login, net, code, rows) ==
    /\ Answered("get_batch_numbers", Replied(login, net, code))
    /\ response' = Listed(login, net, code, rows)

GetWarehouses(login, net, code, rows) ==
    /\ Answered("get_warehouses", Replied(login, net, code))
    /\ response' = Listed(login, net, code, rows)

\* a reply of another status is answered as an empty list (routes.py 697-703)
GetBinCodes(login, net, code, rows) ==
    /\ Answered("get_bin_codes", Replied(login, net, code))
    /\ response' = IF login /\ net = "ok" /\ code # 200 THEN Resp(200, TRUE, "", 0)
                   ELSE Listed(login, net, code, rows)

----------------------------------------------------------------------------
(* The handlers of modules/transfer_grpo/routes.py *)

\* jsonify(response.json() if response.status_code == 200 else {"error": ...}):
\* the ERP's body as it is, or an 'error' member, both with HTTP status 200;
\* a call that raises is not caught and the framework answers 500 without a
\* JSON body
Forwarded(net, code, rows) ==
    IF net # "ok" THEN Body(500, {}, FALSE, "", 0)
    ELSE IF code = 200 THEN Body(200, {"value"}, FALSE, "", rows)
    ELSE Body(200, {"error"}, FALSE, "failed", 0)

TransferGrpoGetSeries(net, code, rows) ==
    /\ Answered("transfer_grpo.get_series", Replied(TRUE, net, code))
    /\ response' = Forwarded(net, code, rows)

TransferGrpoGetDocuments(net, code, rows) ==
    /\ Answered("transfer_grpo.get_documents", Replied(TRUE, net, code))
    /\ response' = Forwarded(net, code, rows)

TransferGrpoGetGrpoDetails(net, code, rows) ==
    /\ Answered("transfer_grpo.get_grpo_details", Replied(TRUE, net, code))
    /\ response' = Forwarded(net, code, rows)

TransferGrpoGetWarehouses(net, code, rows) ==
    /\ Answered("transfer_grpo.get_warehouses", Replied(TRUE, net, code))
    /\ response' = Forwarded(net, code, rows)

TransferGrpoGetBins(net, code, rows) ==
    /\ Answered("transfer_grpo.get_bins", Replied(TRUE, net, code))
    /\ response' = Forwarded(net, code, rows)

----------------------------------------------------------------------------
(* Two overlapping requests on one session: each worker has its own        *)
(* db.session; it reads the rows, changes them in memory and commits.      *)

\* db.session.commit() of a changed session: the UPDATE sets the columns the
\* worker changed since it read the row (seen), whatever the row holds now
Flushed(seen, mine, row) ==
    [row EXCEPT
        !.status = IF mine.status # seen.status THEN mine.status ELSE @,
        !.qc_approved_by = IF mine.qc_approved_by # seen.qc_approved_by
                           THEN mine.qc_approved_by ELSE @]

\* db.session.commit() of a changed item
FlushedItem(seen, mine, row) ==
    [row EXCEPT
        !.approved_quantity = IF mine.approved_quantity # seen.approved_quantity
                              THEN mine.approved_quantity ELSE @,
        !.rejected_quantity = IF mine.rejected_quantity # seen.rejected_quantity
                              THEN mine.rejected_quantity ELSE @,
        !.qc_status = IF mine.qc_status # seen.qc_status THEN mine.qc_status ELSE @,
        !.to_warehouse = IF mine.to_warehouse # seen.to_warehouse
                         THEN mine.to_warehouse ELSE @]

\* a commit of worker w as the order of commits records it; raced: the other
\* worker was between its read and its commit of a request of the same handler
Commit(w, new) ==
    [w |-> w, op |-> txn.op[w], user |-> txn.user[w], new |-> new,
     raced |-> \E v \in Workers \ {w} : txn.at[v] = "read" /\ txn.op[v] = txn.op[w]]

\* qc_approve_items up to the commit: the session and the items are read
QcRead(w, sid, u, batch) ==
    /\ txn.at[w] = "idle" /\ txn.calls[w] < MaxCalls
    /\ SessionFound(sessions, sid)
    /\ txn' = [txn EXCEPT !.at[w] = "read", !.op[w] = "qc_approve", !.sid[w] = sid,
                          !.user[w] = u, !.batch[w] = batch,
                          !.seenSessions[w] = sessions, !.seenItems[w] = items,
                          !.new[w] = <<>>, !.calls[w] = @ + 1]
    /\ UNCHANGED <<sessions, items, splits, batches, labels, logs, erp, posted,
                   request, response, env, ops>>

\* qc_approve_items from the commit on (routes.py 814-825)
QcCommit(w) ==
    LET sid == txn.sid[w]
        seen == txn.seenItems[w]
        done == ApplyBatch([items |-> seen, splits |-> <<>>, err |-> FALSE], txn.batch[w], 1)
    IN
    /\ txn.at[w] = "read" /\ txn.op[w] = "qc_approve"
    /\ items' = [i \in 1..Len(items) |->
                    IF i <= Len(seen) THEN FlushedItem(seen[i], done.items[i], items[i])
                    ELSE items[i]]
    /\ splits' = splits \o done.splits
    /\ sessions' = [sessions EXCEPT ![sid] =
                        Flushed(txn.seenSessions[w][sid],
                                Reviewed(txn.seenSessions[w][sid], txn.user[w]), @)]
    /\ logs' = Append(logs, LogEntry(sid, txn.user[w], "qc_approved"))
    /\ txn' = [txn EXCEPT !.at[w] = "idle", !.order = Append(@, Commit(w, <<>>))]
    /\ UNCHANGED <<batches, labels, erp, posted, request, response, env, ops>>

\* generate_qr_labels up to the commit (routes.py 892-944): the approved
\* items are read and the labels built; with none to add the request ends
\* with its 400 response
MintRead(w, sid) ==
    LET new == NewLabels(sid, ApprovedItems(items, sid), 1) IN
    /\ txn.at[w] = "idle" /\ txn.calls[w] < MaxCalls
    /\ SessionFound(sessions, sid)
    /\ txn' = [txn EXCEPT !.at[w] = IF NothingMinted(Len(new)) THEN "idle" ELSE "read",
                          !.op[w] = "generate_qr_labels", !.sid[w] = sid,
                          !.user[w] = NoUser, !.batch[w] = <<>>,
                          !.seenSessions[w] = <<>>, !.seenItems[w] = <<>>,
                          !.new[w] = new, !.calls[w] = @ + 1]
    /\ UNCHANGED <<sessions, items, splits, batches, labels, logs, erp, posted,
                   request, response, env, ops>>

\* generate_qr_labels from the commit on (routes.py 952)
MintCommit(w) ==
    /\ txn.at[w] = "read" /\ txn.op[w] = "generate_qr_labels"
    /\ labels' = Minted(labels, txn.new[w])
    /\ txn' = [txn EXCEPT !.at[w] = "idle", !.order = Append(@, Commit(w, txn.new[w]))]
    /\ UNCHANGED <<sessions, items, splits, batches, logs, erp, posted,
                   request, response, env, ops>>

----------------------------------------------------------------------------
(* Inputs *)

\* the outcomes of a handler's two commits: both succeed, the first fails,
\* the second fails
Commits == {<<TRUE, TRUE>>, <<FALSE, FALSE>>, <<TRUE, FALSE>>}

Malformed ==
    [item_id |-> NoKey, approved_quantity |-> 0, rejected_quantity |-> 0,
     qc_status |-> "pending", to_warehouse |-> None, splits |-> <<>>]

\* an entry naming item iid with the fields of kind
Approval(iid, kind) == [kind EXCEPT !.item_id = iid]

\* data['items'] of a QC request: at most n entries, each the entry without
\* an 'item_id' or an entry of one of the kinds for an existing or a missing
\* item
QcBatches(its, kinds, n) ==
    SeqsUpTo({Approval(iid, k) : iid \in Refs(its), k \in kinds} \cup {Malformed}, n)

RECURSIVE Reviews(_, _)
\* data['items'] of a QC request that names each of the items 1..n at most
\* once, in id order, with an entry of one of the kinds
Reviews(n, kinds) ==
    IF n = 0 THEN {<<>>}
    ELSE LET r == Reviews(n - 1, kinds)
         IN  r \cup {Append(b, Approval(n, k)) : b \in r, k \in kinds}

Kind(q, r, st, wh, sp) ==
    [item_id |-> NoKey, approved_quantity |-> q, rejected_quantity |-> r,
     qc_status |-> st, to_warehouse |-> wh, splits |-> sp]

OneSplit == <<[split_number |-> 1, quantity |-> Scale, batch_number |-> "B1"]>>

TwoSplits ==
    <<[split_number |-> 1, quantity |-> Scale, batch_number |-> "B2"],
      [split_number |-> 2, quantity |-> Scale, batch_number |-> "B3"]>>

\* a body naming the three management-type flags
FlagBody(wh, b, sr, nm) ==
    [wf |-> TRUE, from_warehouse |-> wh, received_quantity |-> Scale,
     is_batch_item |-> b, is_serial_item |-> sr, is_non_managed |-> nm]

\* a body naming is_batch_item only: data.get gives False for the other flags
AddBody(wh, b) == FlagBody(wh, b, FALSE, FALSE)

BadBody ==
    [wf |-> FALSE, from_warehouse |-> None, received_quantity |-> 0,
     is_batch_item |-> FALSE, is_serial_item |-> FALSE, is_non_managed |-> FALSE]

\* The requests of the session-lifecycle specification: two actors, documents
\* of one line, every commit and ERP outcome, QC requests of at most one
\* entry of one kind.
LifecycleInputs ==
    [users |-> {1, 2},
     lines |-> {<<[wh |-> "W1", qty |-> Scale]>>},
     bodies |-> {AddBody("W2", TRUE), BadBody},
     kinds |-> {Kind(2 * Scale + 1, 0, "approved", "W3", <<>>)},
     batchLen |-> 1,
     commits |-> Commits,
     nets |-> {"ok", "refused", "lost"},
     codes |-> {200, 201, 400}]

\* The requests of the interface specification: one actor, documents of one
\* line, bodies with one and with two management-type flags, every commit and
\* ERP outcome.
ApiInputs ==
    [users |-> {1},
     lines |-> {<<[wh |-> "W1", qty |-> Scale]>>},
     bodies |-> {AddBody("W2", TRUE), FlagBody("W2", TRUE, TRUE, FALSE), BadBody},
     kinds |-> {Kind(Scale, 0, "approved", "W3", <<>>)},
     batchLen |-> 1,
     commits |-> Commits,
     nets |-> {"ok", "refused", "lost"},
     codes |-> {200, 201, 400}]

\* The requests of the QC-review specification: two actors, a document of
\* MaxLines lines, QC requests of up to MaxBatch entries of two kinds, every
\* commit outcome.
ReviewInputs ==
    [users |-> {1, 2},
     lines |-> {[i \in 1..MaxLines |-> [wh |-> "W1", qty |-> Scale]]},
     bodies |-> {AddBody("W2", TRUE), BadBody},
     kinds |-> {Kind(Scale, 0, "approved", "W3", OneSplit),
                Kind(0, Scale, "rejected", "W4", <<>>)},
     batchLen |-> MaxBatch,
     commits |-> Commits,
     nets |-> {"ok"},
     codes |-> {201, 400}]

\* The approvals of the review that precedes the item-content specification:
\* of a fractional quantity above one unit in two splits, of one below one
\* unit in one split, of quantity zero, and a rejection.
ReviewKinds ==
    {Kind(2 * Scale + 1, 0, "approved", "W3", TwoSplits),
     Kind(1, 0, "approved", "W4", OneSplit),
     Kind(0, 0, "approved", "W3", <<>>),
     Kind(2 * Scale + 1, Scale, "rejected", "W3", <<>>)}

\* The requests of the item-content specification: one actor, documents of up
\* to MaxLines lines in either warehouse, every commit and ERP outcome,
\* approvals of one unit for one item.
ContentInputs ==
    [users |-> {1},
     lines |-> SeqsUpTo([wh : {"W1", "W2"}, qty : {Scale}], MaxLines) \ {<<>>},
     bodies |-> {AddBody("W2", TRUE), BadBody},
     kinds |-> {Kind(Scale, 0, "approved", "W3", <<>>)},
     batchLen |-> 1,
     commits |-> Commits,
     nets |-> {"ok", "refused", "lost"},
     codes |-> {200, 201, 400}]

----------------------------------------------------------------------------
\* every request the handlers can receive, with its inputs drawn from in
Requests(in) ==
    \/ \E u \in in.users, erpOut \in {"auth", "status", "empty", "ok"},
          lines \in in.lines, c \in in.commits :
            CreateSessionView(u, erpOut, lines, c[1], c[2])
    \/ \E u \in in.users, req \in {"missing", "baddate", "ok"}, c \in in.commits :
            CreateSession(u, req, c[1], c[2])
    \/ \E sid \in Refs(sessions), data \in in.bodies, c \in in.commits :
            AddItemToSession(sid, data, c[1])
    \/ \E sid \in Refs(sessions), u \in in.users :
         /\ ops < MaxOps
         /\ \E batch \in QcBatches(items, in.kinds, in.batchLen), c \in in.commits :
                QcApproveItems(sid, u, batch, c[1], c[2])
    \/ \E sid \in Refs(sessions), c \in in.commits :
            GenerateQrLabels(sid, c[1])
    \/ \E sid \in Refs(sessions), u \in in.users, net \in in.nets,
          code \in in.codes, c \in in.commits :
            PostTransferToSap(sid, u, net, code, c[1], c[2])

\* every request the read-only handlers can receive
Lookups(in) ==
    \/ \E dbOk \in BOOLEAN : GetSessions(dbOk)
    \/ \E login \in BOOLEAN, net \in {"ok", "refused"}, code \in in.codes, rows \in 0..1 :
            GetSeriesList(login, net, code, rows)
    \/ \E login \in BOOLEAN, net \in {"ok", "refused"}, code \in in.codes, rows \in 0..1 :
            GetDocNumbers(login, net, code, rows)
    \/ \E login \in BOOLEAN, net \in {"ok", "refused"}, code \in in.codes, rows \in 0..1 :
            GetGrpoDetails(login, net, code, rows)
    \/ \E login \in BOOLEAN, net \in {"ok", "refused"}, code \in in.codes, rows \in 0..1,
          batchNum \in BOOLEAN, serialNum \in BOOLEAN :
            ValidateItem(login, net, code, rows, batchNum, serialNum)
    \/ \E login \in BOOLEAN, net \in {"ok", "refused"}, code \in in.codes, rows \in 0..1 :
            GetBatchNumbers(login, net, code, rows)
    \/ \E login \in BOOLEAN, net \in {"ok", "refused"}, code \in in.codes, rows \in 0..1 :
            GetWarehouses(login, net, code, rows)
    \/ \E login \in BOOLEAN, net \in {"ok", "refused"}, code \in in.codes, rows \in 0..1 :
            GetBinCodes(login, net, code, rows)
    \/ \E net \in {"ok", "refused"}, code \in in.codes, rows \in 0..1 :
            TransferGrpoGetSeries(net, code, rows)
    \/ \E net \in {"ok", "refused"}, code \in in.codes, rows \in 0..1 :
            TransferGrpoGetDocuments(net, code, rows)
    \/ \E net \in {"ok", "refused"}, code \in in.codes, rows \in 0..1 :
            TransferGrpoGetGrpoDetails(net, code, rows)
    \/ \E net \in {"ok", "refused"}, code \in in.codes, rows \in 0..1 :
            TransferGrpoGetWarehouses(net, code, rows)
    \/ \E net \in {"ok", "refused"}, code \in in.codes, rows \in 0..1 :
            TransferGrpoGetBins(net, code, rows)

Next == Requests(LifecycleInputs)

Spec == Init /\ [][Next]_vars

\* the whole interface of the two route modules
NextApi == Requests(ApiInputs) \/ Lookups(ApiInputs)

SpecApi == Init /\ [][NextApi]_vars

NextReview == Requests(ReviewInputs)

\* The database after user u imported a document (CreateSessionView).  One
\* request remains.
InitReview ==
    \E u \in ReviewInputs.users, lines \in ReviewInputs.lines :
        /\ sessions = <<NewSession>>
        /\ items = Imported(1, lines)
        /\ splits = <<>>
        /\ batches = <<>>
        /\ labels = <<>>
        /\ logs = <<LogEntry(1, u, "session_created")>>
        /\ erp = <<>>
        /\ posted = NoDoc
        /\ request = Req("create_session_view", 0, u)
        /\ response = Resp(302, TRUE, "", 1)
        /\ env = Env(200, 0)
        /\ ops = MaxOps - 1
        /\ txn = NoTxn

SpecReview == InitReview /\ [][NextReview]_vars

\* The requests of the two workers on a one-line document: QC requests that
\* approve the item, reject it or name no item, each worker serving its own
\* signed-in user; label requests.
RaceInputs ==
    [user |-> [w \in Workers |-> w],
     lines |-> {<<[wh |-> "W1", qty |-> Scale]>>},
     kinds |-> {Kind(Scale, 0, "approved", "W3", <<>>),
                Kind(0, Scale, "rejected", "W4", <<>>)}]

NextRace ==
    \/ \E w \in Workers, sid \in Refs(sessions),
          batch \in Reviews(Len(items), RaceInputs.kinds) :
            QcRead(w, sid, RaceInputs.user[w], batch)
    \/ \E w \in Workers : QcCommit(w)
    \/ \E w \in Workers, sid \in Refs(sessions) : MintRead(w, sid)
    \/ \E w \in Workers : MintCommit(w)

\* The database after a user imported a document (CreateSessionView); no
\* request is in flight.
InitRace ==
    \E lines \in RaceInputs.lines :
        /\ sessions = <<NewSession>>
        /\ items = Imported(1, lines)
        /\ splits = <<>>
        /\ batches = <<>>
        /\ labels = <<>>
        /\ logs = <<LogEntry(1, 1, "session_created")>>
        /\ erp = <<>>
        /\ posted = NoDoc
        /\ request = Req("create_session_view", 0, 1)
        /\ response = Resp(302, TRUE, "", 1)
        /\ env = Env(200, 0)
        /\ ops = MaxOps
        /\ txn = NoTxn

SpecRace == InitRace /\ [][NextRace]_vars

NextContent == Requests(ContentInputs)

\* an item a client added to session sid after the import, batch-managed
Added(sid) ==
    [NewItem(sid, "W2", Scale) EXCEPT !.is_batch_item = TRUE]

\* The database after user u imported a document (CreateSessionView), after
\* an optional added batch-managed item (AddItemToSession), after one
\* successful QC approval (QcApproveItems) whose batch names each item at
\* most once with an entry drawn from ReviewKinds, and after an optional successful minting of the labels
\* (GenerateQrLabels).  One request remains.
InitContent ==
    \E u \in ContentInputs.users, lines \in ContentInputs.lines,
       extra \in {<<>>, <<Added(1)>>}, minted \in BOOLEAN :
      LET imported == Imported(1, lines) \o extra IN
      \E batch \in Reviews(Len(imported), ReviewKinds) :
        LET done == ApplyBatch([items |-> imported, splits |-> <<>>, err |-> FALSE], batch, 1)
        IN
        /\ ~done.err
        /\ sessions = <<Reviewed(NewSession, u)>>
        /\ items = done.items
        /\ splits = done.splits
        /\ batches = <<>>
        /\ logs = <<LogEntry(1, u, "session_created"), LogEntry(1, u, "qc_approved")>>
        /\ erp = <<>>
        /\ posted = NoDoc
        /\ env = Env(NoReply, 0)
        /\ ops = MaxOps - 1
        /\ txn = NoTxn
        /\ LET new == NewLabels(1, ApprovedItems(items, 1), 1) IN
           IF minted /\ new # <<>>
           THEN /\ labels = new
                /\ request = Req("generate_qr_labels", 1, NoUser)
                /\ response = Resp(200, TRUE, "", Len(new))
           ELSE /\ labels = <<>>
                /\ request = ReqWith("qc_approve", 1, u, batch)
                /\ response = Resp(200, TRUE, "", 0)

SpecContent == InitContent /\ [][NextContent]_vars

----------------------------------------------------------------------------
(* Properties *)

\* a step that handles a request of handler op
Handled(op) == ops' # ops /\ request'.op = op

\* the whole units in a non-negative quantity
FloorOf(q) == CHOOSE n \in 0..q : n * Scale <= q /\ q < (n + 1) * Scale

\* the ids of the items of session sid
Owned(sid) == {i \in 1..Len(items) : items[i].session_id = sid}

StatusRank(st) ==
    CASE st = "draft" -> 0
      [] st = "in_progress" -> 1
      [] st = "completed" -> 2
      [] st = "transferred" -> 3

\* C1: a successful generate_qr_labels call adds, for every item of the
\* session with QC status 'approved' and approved quantity q > 0, exactly
\* floor(q) labels, numbered 1..floor(q) once each, each with
\* total_labels = floor(q) and quantity 1; labels_generated is the number of
\* labels the call added.
C1_LabelsPerApprovedUnit ==
    [][(Handled("generate_qr_labels") /\ response'.success) =>
        LET sid == request'.sid
            added == SubSeq(labels', Len(labels) + 1, Len(labels'))
            For(iid) == {k \in 1..Len(added) : added[k].item_id = iid}
        IN  /\ SubSeq(labels', 1, Len(labels)) = labels
            /\ response'.n = Len(added)
            /\ \A iid \in Owned(sid) :
                (items[iid].qc_status = "approved" /\ items[iid].approved_quantity > 0) =>
                    LET n == FloorOf(items[iid].approved_quantity) IN
                    /\ Cardinality(For(iid)) = n
                    /\ \A v \in 1..n :
                        Cardinality({k \in For(iid) : added[k].label_number = v}) = 1
                    /\ \A k \in For(iid) :
                        added[k].total_labels = n /\ added[k].quantity = 1
    ]_vars

\* labels were minted for a session holding an approved item of 2.5 units and
\* an approved item of less than one unit
C1_Witness ==
    /\ request.op = "generate_qr_labels" /\ response.success
    /\ \E i, j \in Owned(request.sid) :
        /\ items[i].qc_status = "approved" /\ items[j].qc_status = "approved"
        /\ items[i].approved_quantity > Scale
        /\ items[i].approved_quantity % Scale # 0
        /\ items[j].approved_quantity > 0 /\ items[j].approved_quantity < Scale
        /\ response.n = FloorOf(items[i].approved_quantity)

\* C2: the document post_transfer_to_sap submits holds one line per item of
\* the session with QC status 'approved', in item order, and every line's
\* LineNum is its 0-based position among those lines.
C2_LineNumIsFilteredPosition ==
    posted.sent =>
        LET L == posted.StockTransferLines
            approved == {i \in Owned(posted.session) : items[i].qc_status = "approved"}
        IN  /\ Len(L) = Cardinality(approved)
            /\ \A k \in 1..Len(L) : L[k].ItemCode \in approved
            /\ \A k, m \in 1..Len(L) : k < m => L[k].ItemCode < L[m].ItemCode
            /\ \A k \in 1..Len(L) : L[k].LineNum = k - 1

\* C3: a post_transfer_to_sap call that returns success leaves the session
\* 'transferred' with the ERP's DocEntry and DocNum; one that returns an error
\* leaves every persisted session as it was.
C3_FailedPostChangesNothing ==
    [][Handled("post_transfer") =>
        IF response'.success
        THEN LET s == sessions'[request'.sid] IN
             /\ s.status = "transferred"
             /\ s.transfer_doc_entry = Len(erp')
             /\ s.transfer_doc_num = ErpReply(Len(erp')).DocNum
        ELSE sessions' = sessions
    ]_vars

\* C4: no request moves a session's status backward along
\* draft, in_progress, completed, transferred.
C4_StatusNeverGoesBack ==
    [][\A sid \in 1..Len(sessions) :
        StatusRank(sessions'[sid].status) >= StatusRank(sessions[sid].status)]_vars

C6_MissingSessionChangesNothing ==
    [][(Handled("qc_approve") /\ request'.sid > Len(sessions)) =>
        /\ response'.code = 404 /\ ~response'.success
        /\ response'.error = "session_not_found"
        /\ UNCHANGED <<sessions, items, splits, logs>>
    ]_vars

\* a QC approval for a missing session was refused while other sessions hold
\* items
C6_Witness ==
    /\ request.op = "qc_approve" /\ response.code = 404
    /\ request.sid > Len(sessions)
    /\ items # <<>>

\* C7: a generate_qr_labels call on a session without an item of QC status
\* 'approved' and approved quantity > 0 returns the 'no approved items' error
\* and leaves the labels as they were.
C7_NoEligibleItemNoLabel ==
    [][(/\ Handled("generate_qr_labels")
        /\ request'.sid <= Len(sessions)
        /\ ~\E i \in Owned(request'.sid) :
              items[i].qc_status = "approved" /\ items[i].approved_quantity > 0) =>
        /\ response'.code = 400 /\ ~response'.success
        /\ response'.error = "no_approved_items"
        /\ labels' = labels
    ]_vars

\* minting was refused for a session holding an approved item of quantity 0
\* and a rejected item of positive quantity
C7_Witness ==
    /\ request.op = "generate_qr_labels" /\ response.error = "no_approved_items"
    /\ \E i, j \in Owned(request.sid) :
        /\ items[i].qc_status = "approved" /\ items[i].approved_quantity = 0
        /\ items[j].qc_status = "rejected" /\ items[j].approved_quantity > 0

C9_TransferredOnlyIfAccepted ==
    \A sid \in 1..Len(sessions) :
        (sessions[sid].status = "transferred" \/ sessions[sid].transfer_doc_entry # 0) =>
            /\ sessions[sid].transfer_doc_entry \in 1..Len(erp)
            /\ erp[sessions[sid].transfer_doc_entry] = sid

\* a session is 'transferred'
C9_Witness ==
    \E sid \in 1..Len(sessions) :
        sessions[sid].status = "transferred" /\ sessions[sid].transfer_doc_entry # 0

\* C10: a qc_approve_items call that returns an error persists none of its
\* item updates, split inserts or session changes.
C10_FailedApprovalPersistsNothing ==
    [][(Handled("qc_approve") /\ ~response'.success) =>
        UNCHANGED <<sessions, items, splits>>
    ]_vars

\* the JSON operations of the two route modules: every handler but the page
\* create_session_view, which answers with a redirect
JsonOps ==
    {"create_session", "add_item", "qc_approve", "generate_qr_labels", "post_transfer",
     "get_sessions", "get_series_list", "get_doc_numbers", "get_grpo_details",
     "validate_item", "get_batch_numbers", "get_warehouses", "get_bin_codes",
     "transfer_grpo.get_series", "transfer_grpo.get_documents",
     "transfer_grpo.get_grpo_details", "transfer_grpo.get_warehouses",
     "transfer_grpo.get_bins"}

\* C11: every response of every JSON operation of both route modules carries
\* a success flag; with success true it carries a payload and a success
\* status, with success false an error description and a status among 400,
\* 404, 500.
C11_UniformEnvelope ==
    request.op \in JsonOps =>
        /\ "success" \in response.members
        /\ IF response.success
           THEN "payload" \in response.members /\ response.code = 200
           ELSE /\ "error" \in response.members /\ response.error # ""
                /\ response.code \in {400, 404, 500}

\* at most one of the three management-type flags of item it is true
ExclusiveFlags(it) ==
    Cardinality({f \in {"is_batch_item", "is_serial_item", "is_non_managed"} : it[f]}) <= 1

\* C12: every stored item, and every classification validate_item returns,
\* has at most one of is_batch_item, is_serial_item, is_non_managed true.
C12_FlagsMutuallyExclusive ==
    /\ \A i \in 1..Len(items) : ExclusiveFlags(items[i])
    /\ (request.op = "validate_item" /\ response.success) => Cardinality(response.flags) <= 1

\* C13: every item satisfies
\* approved_quantity + rejected_quantity <= received_quantity.
C13_QuantityConservation ==
    \A i \in 1..Len(items) :
        items[i].approved_quantity + items[i].rejected_quantity <= items[i].received_quantity

\* the ids of the splits of item iid, oldest first
ItemSplits(iid) == SelectIdx([j \in 1..Len(splits) |-> splits[j].item_id = iid], 1)

\* the number of labels in ls for the pair (item iid, label_number v)
Copies(ls, iid, v) ==
    Cardinality({j \in 1..Len(ls) : ls[j].item_id = iid /\ ls[j].label_number = v})

\* C14: a generate_qr_labels call that follows a successful one on the same
\* session with nothing in between, and whose commit does not fail, succeeds,
\* reports the same number of labels and adds a copy of every label the first
\* call added: every (item, label_number) pair of the first call then has at
\* least two label records, one more than before.
C14_SecondMintingDuplicates ==
    [][(/\ request.op = "generate_qr_labels" /\ response.success
        /\ Handled("generate_qr_labels") /\ request'.sid = request.sid
        /\ env'.failed = 0) =>
        LET first == SubSeq(labels, Len(labels) - response.n + 1, Len(labels))
            second == SubSeq(labels', Len(labels) + 1, Len(labels'))
        IN  /\ response'.success /\ response'.code = 200
            /\ response'.n = response.n
            /\ second = first
            /\ SubSeq(labels', 1, Len(labels)) = labels
            /\ \A k \in 1..Len(first) :
                LET iid == first[k].item_id
                    v == first[k].label_number
                IN  /\ Copies(labels', iid, v) = Copies(labels, iid, v) + 1
                    /\ Copies(labels', iid, v) >= 2
    ]_vars

\* labels were minted twice for a session with an approved item of 2.5
\* units: four labels, two for each label number
C14_Witness ==
    /\ request.op = "generate_qr_labels" /\ response.success
    /\ response.n >= 2
    /\ Len(labels) = 2 * response.n
    /\ \A k \in 1..Len(labels) : Copies(labels, labels[k].item_id, labels[k].label_number) = 2

C18_NoWholeUnitNoLabel ==
    [][(/\ Handled("generate_qr_labels")
        /\ request'.sid <= Len(sessions)
        /\ LET eligible == {i \in Owned(request'.sid) :
                              items[i].qc_status = "approved" /\ items[i].approved_quantity > 0}
           IN  eligible # {} /\ \A i \in eligible : FloorOf(items[i].approved_quantity) = 0) =>
        /\ response'.code = 400 /\ ~response'.success
        /\ response'.error = "no_labels"
        /\ labels' = labels
    ]_vars

\* minting was refused with 'no labels' for a session whose only eligible
\* items hold less than one unit, beside an item that is not eligible
C18_Witness ==
    /\ request.op = "generate_qr_labels" /\ response.error = "no_labels"
    /\ labels = <<>>
    /\ \E i, j \in Owned(request.sid) :
        /\ items[i].qc_status = "approved"
        /\ items[i].approved_quantity > 0 /\ items[i].approved_quantity < Scale
        /\ items[j].qc_status # "approved" \/ items[j].approved_quantity = 0

\* the split rows the loop adds for entries k.. of body, given n items
RECURSIVE SplitsOf(_, _, _)
SplitsOf(body, k, n) ==
    IF k > Len(body) THEN <<>>
    ELSE (IF body[k].item_id <= n
          THEN [j \in 1..Len(body[k].splits) |->
                    [item_id |-> body[k].item_id,
                     split_number |-> body[k].splits[j].split_number,
                     quantity |-> body[k].splits[j].quantity,
                     batch_number |-> body[k].splits[j].batch_number]]
          ELSE <<>>) \o SplitsOf(body, k + 1, n)

\* C19: a qc_approve_items call on an existing session whose batch names an
\* item id that matches no item, every entry having an item_id, and whose
\* commits do not fail, returns success; the unknown entry writes nothing,
\* and every other entry is applied: each item named by an entry holds the
\* fields of the last entry naming it, each item named by none is unchanged,
\* and the splits of every entry naming an item are added in order.
C19_UnknownItemSkipped ==
    [][(/\ Handled("qc_approve") /\ request'.sid <= Len(sessions)
        /\ env'.failed = 0
        /\ \A k \in 1..Len(request'.body) : request'.body[k].item_id # NoKey
        /\ \E k \in 1..Len(request'.body) : request'.body[k].item_id > Len(items)) =>
        LET body == request'.body IN
        /\ response'.success /\ response'.code = 200
        /\ Len(items') = Len(items)
        /\ \A i \in 1..Len(items) :
            LET named == {k \in 1..Len(body) : body[k].item_id = i} IN
            IF named = {} THEN items'[i] = items[i]
            ELSE LET e == body[CHOOSE k \in named : \A m \in named : m <= k] IN
                 items'[i] = [items[i] EXCEPT
                                !.approved_quantity = e.approved_quantity,
                                !.rejected_quantity = e.rejected_quantity,
                                !.qc_status = e.qc_status,
                                !.to_warehouse = e.to_warehouse]
        /\ splits' = splits \o SplitsOf(body, 1, Len(items))
    ]_vars

\* a QC approval succeeded whose batch names an unknown item between an entry
\* that approved one item and an entry that rejected another
C19_Witness ==
    /\ request.op = "qc_approve" /\ response.success
    /\ Len(request.body) = 3
    /\ request.body[2].item_id > Len(items)
    /\ request.body[1].item_id \in 1..Len(items)
    /\ request.body[3].item_id \in 1..Len(items)
    /\ request.body[1].item_id # request.body[3].item_id
    /\ items[request.body[1].item_id].qc_status = "approved"
    /\ items[request.body[3].item_id].qc_status = "rejected"
    /\ Len(splits) = 1

\* the commits of handler op, by their position in the order of commits
CommitsOf(op) == {k \in 1..Len(txn.order) : txn.order[k].op = op}

\* C15: whatever the interleaving of the reads and commits of the workers'
\* requests, (a) once a QC approval has committed, the session is
\* 'in_progress' and its qc_approved_by is the actor of the QC approval that
\* committed last; (b) when two label requests that built the same labels
\* have both committed, every (item, label_number) pair of these labels is
\* held by at least two label records.
C15_OverlappingRequests ==
    /\ LET qc == CommitsOf("qc_approve") IN
       qc # {} =>
         LET last == txn.order[CHOOSE k \in qc : \A m \in qc : m <= k] IN
         /\ sessions[1].status = "in_progress"
         /\ sessions[1].qc_approved_by = last.user
    /\ \A i, j \in CommitsOf("generate_qr_labels") :
         (i < j /\ txn.order[i].new = txn.order[j].new) =>
            \A k \in 1..Len(txn.order[i].new) :
                Copies(labels, txn.order[i].new[k].item_id,
                       txn.order[i].new[k].label_number) >= 2

\* two QC approvals by different actors overlapped and both committed, the
\* later one's actor is the session's approver; then two label requests
\* overlapped and both committed, and a label pair is held twice
C15_Witness ==
    /\ \E i, j \in CommitsOf("qc_approve") :
         /\ i < j /\ txn.order[i].raced
         /\ txn.order[i].w # txn.order[j].w
         /\ txn.order[i].user # txn.order[j].user
         /\ \A m \in CommitsOf("qc_approve") : m <= j
         /\ sessions[1].qc_approved_by = txn.order[j].user
    /\ \E i, j \in CommitsOf("generate_qr_labels") :
         /\ i < j /\ txn.order[i].raced
         /\ txn.order[i].w # txn.order[j].w
         /\ txn.order[i].new # <<>>
         /\ Copies(labels, txn.order[i].new[1].item_id,
                   txn.order[i].new[1].label_number) = 2

\* the operations that call the ERP
ErpOps ==
    {"get_series_list", "get_doc_numbers", "get_grpo_details", "validate_item",
     "get_batch_numbers", "get_warehouses", "get_bin_codes", "post_transfer",
     "transfer_grpo.get_series", "transfer_grpo.get_documents",
     "transfer_grpo.get_grpo_details", "transfer_grpo.get_warehouses",
     "transfer_grpo.get_bins"}

\* C20: when the ERP answers an operation that calls it with a status other
\* than 200 and 201, the operation's response has success false and an error
\* status.
C20_UpstreamRejectionSurfaced ==
    (request.op \in ErpOps /\ env.status \notin {NoReply, 200, 201}) =>
        /\ "success" \in response.members
        /\ ~response.success
        /\ response.code >= 400

\* the positions in the split table sp of the splits of item iid
SplitsOn(sp, iid) == {j \in 1..Len(sp) : sp[j].item_id = iid}

\* C21: a qc_approve_items call for session S leaves every item of another
\* session as it was: its quantities, QC status, destination and splits are
\* the same after the call, whatever item ids the batch names.
C21_QcTouchesOnlyOwnItems ==
    [][Handled("qc_approve") =>
        \A i \in 1..Len(items) :
            items[i].session_id # request'.sid =>
                /\ items'[i] = items[i]
                /\ SplitsOn(splits', i) = SplitsOn(splits, i)
    ]_vars

\* the number of transfers of session sid the ERP has accepted
AcceptedFor(sid) == Cardinality({k \in 1..Len(erp) : erp[k] = sid})

\* C22: a post_transfer_to_sap call on an existing session sends a document
\* whatever the session's status, 'transferred' included; when the ERP
\* answers 200 or 201 it has accepted one more transfer of the session, and
\* when the commits go through the session is 'transferred' and holds the
\* identifiers of this reply, not those of an earlier one.
C22_PostingNotGatedOnStatus ==
    [][(Handled("post_transfer") /\ SessionFound(sessions, request'.sid)) =>
        LET sid == request'.sid IN
        /\ posted' # NoDoc /\ posted'.session = sid
        /\ env'.status \in {200, 201} =>
            /\ erp' = Append(erp, sid)
            /\ env'.failed = 0 =>
                /\ response'.success
                /\ sessions'[sid].status = "transferred"
                /\ sessions'[sid].transfer_doc_entry = ErpReply(Len(erp')).DocEntry
                /\ sessions'[sid].transfer_doc_num = ErpReply(Len(erp')).DocNum
                /\ sessions[sid].status = "transferred" =>
                    sessions'[sid].transfer_doc_entry # sessions[sid].transfer_doc_entry
    ]_vars

\* a session that was 'transferred' was posted again with success: the ERP
\* has accepted two transfers of it and the session holds the second one's
\* identifiers
C22_Witness ==
    /\ request.op = "post_transfer" /\ response.success
    /\ SessionFound(sessions, request.sid)
    /\ AcceptedFor(request.sid) = 2
    /\ sessions[request.sid].status = "transferred"
    /\ sessions[request.sid].transfer_doc_entry = ErpReply(Len(erp)).DocEntry
    /\ Len(erp) >= 2 /\ erp[Len(erp)] = request.sid

\* C23: no session is ever 'completed'.  A session is created as 'draft';
\* the status of an existing session changes only to 'in_progress', by a
\* qc_approve_items call on it, or to 'transferred', by a post_transfer_to_sap
\* call on it that the ERP answered with 200 or 201, from whatever status it
\* had ('draft' included).
C23_CompletedUnreachable ==
    [][\A k \in 1..Len(sessions') :
        /\ sessions'[k].status \in {"draft", "in_progress", "transferred"}
        /\ k > Len(sessions) => sessions'[k].status = "draft"
        /\ (k <= Len(sessions) /\ sessions'[k].status # sessions[k].status) =>
            \/ /\ sessions'[k].status = "in_progress"
               /\ request'.op = "qc_approve" /\ request'.sid = k
            \/ /\ sessions'[k].status = "transferred"
               /\ request'.op = "post_transfer" /\ request'.sid = k
               /\ env'.status \in {200, 201}
    ]_vars

\* a session was posted with success without any QC approval: it went from
\* 'draft' to 'transferred'
C23_Witness ==
    /\ request.op = "post_transfer" /\ response.success
    /\ SessionFound(sessions, request.sid)
    /\ sessions[request.sid].status = "transferred"
    /\ sessions[request.sid].qc_approved_by = NoUser
    /\ \A j \in 1..Len(logs) :
        logs[j].session_id = request.sid => logs[j].action # "qc_approved"

\* session sid has no item of QC status 'approved'
NothingApproved(sid) ==
    \A i \in 1..Len(items) :
        items[i].session_id = sid => items[i].qc_status # "approved"

\* C24: a post_transfer_to_sap call on an existing session that has no item
\* of QC status 'approved' sends a document whose line list is empty and is
\* not answered with a 400 response; when the ERP answers 200 or 201 and the
\* commits go through, the call succeeds and the session is 'transferred'.
C24_PostingWithoutApprovedItems ==
    [][(/\ Handled("post_transfer") /\ SessionFound(sessions, request'.sid)
        /\ NothingApproved(request'.sid)) =>
        /\ posted' # NoDoc
        /\ posted'.session = request'.sid
        /\ posted'.StockTransferLines = <<>>
        /\ response'.code # 400
        /\ (env'.status \in {200, 201} /\ env'.failed = 0) =>
            /\ response'.success
            /\ erp' = Append(erp, request'.sid)
            /\ sessions'[request'.sid].status = "transferred"
    ]_vars

\* a session whose items are all unapproved was posted with an empty line
\* list and is 'transferred'
C24_Witness ==
    /\ request.op = "post_transfer" /\ response.success
    /\ SessionFound(sessions, request.sid)
    /\ SessionItems(items, request.sid) # <<>>
    /\ NothingApproved(request.sid)
    /\ posted # NoDoc
    /\ posted.StockTransferLines = <<>>
    /\ sessions[request.sid].status = "transferred"

====
